---- MODULE Spec2Model ----
(***************************************************************************)
(* Local-first store (src-tauri/src/database.rs) and Supabase sync         *)
(* (src-tauri/src/sync.rs) of the Microdiag agent.                         *)
(*                                                                         *)
(* A table is the set of its rows, a row a record of its columns.  TEXT    *)
(* values that SQLite compares are sequences of character codes, compared  *)
(* byte by byte as the BINARY collation does.  An Option<T> is <<>> (None) *)
(* or <<v>> (Some(v)).  Time is in seconds; instant 0 is the moment the    *)
(* process starts, written "2026-01-10 00:00:00" by SQLite.                *)
(***************************************************************************)
EXTENDS Integers, Sequences, FiniteSets, TLC

VARIABLES
    now,              \* the wall clock, seconds
    scripts,          \* table scripts
    metrics_history,  \* table metrics_history
    metrics_seq,      \* sqlite_sequence of metrics_history (AUTOINCREMENT)
    device_cache,     \* table device_cache
    cache_set_at,     \* key -> instant of the last set_cache on it
    sync_queue,       \* table sync_queue
    sync_queue_seq,   \* sqlite_sequence of sync_queue (AUTOINCREMENT)
    call,             \* the last Database call: its name, argument, result
    backend,          \* which array the backend's scripts endpoint serves
    sync_pc,          \* per sync pass: position in sync_scripts_from_supabase
    sync_resp,        \* per sync pass: the fetched array `scripts`
    sync_idx,         \* per sync pass: index of the next element of the loop
    sync_count,       \* per sync pass: `count`
    sync_log,         \* per sync pass: "[Sync] Error saving script" lines
    sync_ret,         \* per sync pass: the value returned
    sched_pc,         \* position of the task spawned by start_sync_loop
    sched_wake,       \* deadline of the startup sleep
    ticker,           \* the interval's next deadline, <<>> before it exists
    exec_pc,          \* position in check_remote_executions
    exec_answer,      \* how the devices request of this call ended, "" if none
    exec_device,      \* what get_or_fetch_device_id returned to it
    exec_looked,      \* this call has sent the devices request
    exec_queried,     \* this call has sent the remote_executions request
    exec_ret,         \* the value check_remote_executions returned
    lock,             \* Database.conn: the task holding the MutexGuard, or <<>>
    mark_ids,         \* mark_metrics_synced under way: `ids`
    mark_i,           \* mark_metrics_synced under way: index of the next id
    mark_fail,        \* mark_metrics_synced under way: the execute that fails
    mark_before       \* metrics_history when that call took the lock

vars == <<now, scripts, metrics_history, metrics_seq, device_cache,
          cache_set_at, sync_queue, sync_queue_seq, call, backend, sync_pc,
          sync_resp, sync_idx, sync_count, sync_log, sync_ret, sched_pc,
          sched_wake, ticker, exec_pc, exec_answer, exec_device, exec_looked,
          exec_queried, exec_ret, lock, mark_ids, mark_i, mark_fail,
          mark_before>>

storeVars == <<scripts, metrics_history, metrics_seq, device_cache,
               cache_set_at, sync_queue, sync_queue_seq>>
syncVars == <<sync_pc, sync_resp, sync_idx, sync_count, sync_log, sync_ret>>
schedVars == <<sched_pc, sched_wake, ticker>>
execVars == <<exec_pc, exec_answer, exec_device, exec_looked, exec_queried,
              exec_ret>>
markVars == <<mark_ids, mark_i, mark_fail, mark_before>>
lockVars == <<lock, markVars>>

----------------------------------------------------------------------------
(* Bounds of the model *)

MaxEnqueue == 2        \* cap on add_to_sync_queue calls
MaxSamples == 2        \* cap on save_metrics calls

(* Program constants *)

MAX_RETRIES == 5            \* "retry_count < 5"
MaxRetryCount == MAX_RETRIES + 1   \* cap on retry_count (the code has none)
STARTUP_DELAY_SECS == 5     \* Duration::from_secs(5)
SYNC_PERIOD_SECS == 300     \* Duration::from_secs(300)
RETENTION_DAYS == 7         \* datetime('now', '-7 days')
DEVICE_ID_TTL_MINUTES == 60 \* Some(60)
SecondsPerDay == 24 * 60 * 60

\* The instants the clock takes: the process start, one second later, the
\* end of the startup sleep, one and two sync periods after it, one second
\* past 60 minutes, one second past 7 days.
Instants == {0, 1, 5, 305, 605, 3601, 604801}

----------------------------------------------------------------------------
(* TEXT values *)

None == <<>>
Some(v) == <<v>>

Pad2(n) == <<48 + (n \div 10), 48 + (n % 10)>>

RECURSIVE DecimalText(_)
\* format!("{}", n) for n >= 0
DecimalText(n) ==
    IF n < 10 THEN <<48 + n>> ELSE DecimalText(n \div 10) \o <<48 + (n % 10)>>

\* SQLite's datetime(): "YYYY-MM-DD HH:MM:SS" of instant t, within January 2026
DatetimeText(t) ==
    LET day == 10 + (t \div SecondsPerDay)
        sec == t % SecondsPerDay
    IN  <<50, 48, 50, 54, 45, 48, 49, 45>> \o Pad2(day) \o <<32>>
        \o Pad2(sec \div 3600) \o <<58>> \o Pad2((sec % 3600) \div 60)
        \o <<58>> \o Pad2(sec % 60)

RECURSIVE TextLessFrom(_, _, _)
\* memcmp from position i on: the first differing character decides, and of
\* two equal prefixes the shorter text comes first
TextLessFrom(a, b, i) ==
    IF i > Len(b) THEN FALSE
    ELSE IF i > Len(a) THEN TRUE
    ELSE IF a[i] = b[i] THEN TextLessFrom(a, b, i + 1)
    ELSE a[i] < b[i]

\* a < b for two TEXT values
TextLess(a, b) == TextLessFrom(a, b, 1)

\* format!("datetime('now', '+{} minutes')", m): the text bound to expires_at
ExpiresText(m) ==
    <<100, 97, 116, 101, 116, 105, 109, 101, 40, 39, 110, 111, 119, 39, 44,
      32, 39, 43>>
    \o DecimalText(m)
    \o <<32, 109, 105, 110, 117, 116, 101, 115, 39, 41>>

----------------------------------------------------------------------------
(* The record of the last Database call *)

\* `again` tells that the call before it was the same call with the same
\* result
Call(op, arg, ret) ==
    [op |-> op, arg |-> arg, ret |-> ret,
     again |-> call.op = op /\ call.arg = arg /\ call.ret = ret]

----------------------------------------------------------------------------
(* The connection mutex *)

\* (mutant) the MutexGuard outlives the call, in the hands of the caller
LockAfterCallKept(task) == Some(task)

\* `let conn = self.conn.lock().unwrap();` is a local of each Database
\* method: the guard is dropped when the method returns
LockAfterCall(task) == None

----------------------------------------------------------------------------
(* The clock *)

AdvanceClock(instants) ==
    /\ \E t \in instants : t > now /\ now' = t
    /\ UNCHANGED <<storeVars, call, backend, lockVars, execVars, syncVars, schedVars>>

\* the listings of `rows` that ORDER BY allows, `before` being the pairs
\* <<r1, r2>> of which r1 sorts strictly ahead of r2: every row once, no row
\* right before one that sorts strictly ahead of it (the sort keys are totally
\* ordered, so this settles every pair); rows that compare equal come in any
\* order
Listings(rows, before) ==
    LET n == Cardinality(rows)
    IN  {s \in [1..n -> rows] :
            /\ \A i, j \in 1..n : i # j => s[i] # s[j]
            /\ \A i \in 1..(n - 1) : <<s[i + 1], s[i]>> \notin before}

\* LIMIT k of a listing; a negative k is no limit
Limit(s, k) == IF k < 0 \/ k >= Len(s) THEN s ELSE SubSeq(s, 1, k)

----------------------------------------------------------------------------
(* Sync queue operations *)

Tables == {"metrics"}
Operations == {"insert"}
Payloads == {"p1"}
ErrorTexts == {"e1", "e2"}
Limits == {1, 10}
QueueIds == 1..MaxEnqueue

\* INSERT INTO sync_queue (table_name, operation, data): id from the
\* AUTOINCREMENT sequence, created_at CURRENT_TIMESTAMP, retry_count 0,
\* last_error NULL
NewQueueRow(id, t, o, d, at) ==
    [id |-> id, table_name |-> t, operation |-> o, data |-> d,
     created_at |-> DatetimeText(at), retry_count |-> 0, last_error |-> None]

AddToSyncQueue(t, o, d) ==
    /\ sync_queue_seq < MaxEnqueue
    /\ sync_queue_seq' = sync_queue_seq + 1
    /\ sync_queue' = sync_queue \cup
                        {NewQueueRow(sync_queue_seq + 1, t, o, d, now)}
    /\ call' = Call("add_to_sync_queue", <<t, o, d>>,
                 sync_queue_seq + 1)
    /\ UNCHANGED <<now, scripts, metrics_history, metrics_seq, device_cache,
                   cache_set_at, backend, lockVars, execVars, syncVars, schedVars>>

\* (mutant) the bound taken inclusively
EligibleInclusive(row) == row.retry_count <= MAX_RETRIES

\* WHERE retry_count < 5
Eligible(row) == row.retry_count < MAX_RETRIES

\* ORDER BY created_at ASC
CreatedBefore(rows) ==
    {pair \in rows \X rows :
        TextLess(pair[1].created_at, pair[2].created_at)}

\* the results the SELECT of get_pending_sync_items may give
PendingSyncItems(limit) ==
    LET rows == {row \in sync_queue : Eligible(row)}
    IN  {Limit(s, limit) : s \in Listings(rows, CreatedBefore(rows))}

GetPendingSyncItems(limit) ==
    /\ \E items \in PendingSyncItems(limit) :
          call' = Call("get_pending_sync_items", limit,
                 items)
    /\ UNCHANGED <<now, storeVars, backend, lockVars, execVars, syncVars, schedVars>>

\* (mutant) the delete takes every row up to the id
DeleteQueueRowUpTo(queue, id) == {row \in queue : row.id > id}

\* DELETE FROM sync_queue WHERE id = ?1
DeleteQueueRow(queue, id) == {row \in queue : row.id # id}

MarkSyncSuccess(id) ==
    /\ sync_queue' = DeleteQueueRow(sync_queue, id)
    /\ call' = Call("mark_sync_success", id,
                 "Ok")
    /\ UNCHANGED <<now, scripts, metrics_history, metrics_seq, device_cache,
                   cache_set_at, sync_queue_seq, backend, lockVars, execVars, syncVars,
                   schedVars>>

\* (mutant) the first error text is kept
FailQueueRowKeepError(queue, id, error) ==
    {IF row.id = id
        THEN [row EXCEPT !.retry_count = row.retry_count + 1,
                         !.last_error = IF row.last_error = None
                                           THEN Some(error) ELSE @]
        ELSE row : row \in queue}

\* UPDATE sync_queue SET retry_count = retry_count + 1, last_error = ?2
\* WHERE id = ?1
FailQueueRow(queue, id, error) ==
    {IF row.id = id
        THEN [row EXCEPT !.retry_count = row.retry_count + 1,
                         !.last_error = Some(error)]
        ELSE row : row \in queue}

MarkSyncFailed(id, error) ==
    /\ \A row \in sync_queue : row.id = id => row.retry_count < MaxRetryCount
    /\ sync_queue' = FailQueueRow(sync_queue, id, error)
    /\ call' = Call("mark_sync_failed", <<id, error>>,
                 "Ok")
    /\ UNCHANGED <<now, scripts, metrics_history, metrics_seq, device_cache,
                   cache_set_at, sync_queue_seq, backend, lockVars, execVars, syncVars,
                   schedVars>>

----------------------------------------------------------------------------
(* Script operations *)

\* LocalScript values a caller may pass to upsert_script
ScriptA ==
    [id |-> "a", slug |-> "s1", name |-> "n1", description |-> None,
     category |-> "c1", language |-> "powershell", code |-> "x",
     icon |-> None, is_active |-> TRUE, requires_admin |-> FALSE,
     estimated_time |-> None, success_message |-> None]
ScriptInputs ==
    {ScriptA,
     [ScriptA EXCEPT !.code = "y"],
     [ScriptA EXCEPT !.id = "e"],
     [ScriptA EXCEPT !.id = "b", !.slug = "s2", !.name = "n2",
                     !.is_active = FALSE]}

\* LocalScript values of two categories, two of them with the same category
\* and name, one inactive, one of a name in upper case
ListedInputs ==
    {ScriptA,
     [ScriptA EXCEPT !.id = "b", !.slug = "s2", !.name = "n2"],
     [ScriptA EXCEPT !.id = "b", !.slug = "s2", !.name = "n2",
                     !.is_active = FALSE],
     [ScriptA EXCEPT !.id = "c", !.slug = "s3", !.category = "general"],
     [ScriptA EXCEPT !.id = "d", !.slug = "s4"],
     [ScriptA EXCEPT !.id = "f", !.slug = "s5", !.category = "Zeta",
                     !.name = "n3"]}
Categories == {"c1", "general", "Zeta", "other"}

\* (mutant) the table without its PRIMARY KEY and UNIQUE constraints
ReplaceScriptRowUnconstrained(table, script, at) ==
    table \cup {[script |-> script, synced_at |-> at]}

\* (mutant) REPLACE resolving the conflict on id alone
ReplaceScriptRowById(table, script, at) ==
    {row \in table : row.script.id # script.id}
    \cup {[script |-> script, synced_at |-> at]}

\* INSERT OR REPLACE INTO scripts (..., synced_at) VALUES (..., CURRENT_TIMESTAMP)
\* under id TEXT PRIMARY KEY and slug TEXT NOT NULL UNIQUE: REPLACE deletes
\* every row that holds the new row's id or its slug, then inserts
ReplaceScriptRow(table, script, at) ==
    {row \in table : row.script.id # script.id /\ row.script.slug # script.slug}
    \cup {[script |-> script, synced_at |-> at]}

\* one upsert_script call; ok = FALSE is conn.execute failing (busy, I/O)
UpsertScript(script, ok) ==
    /\ scripts' = IF ok THEN ReplaceScriptRow(scripts, script, now) ELSE scripts
    /\ call' = Call("upsert_script", script,
                 IF ok THEN "Ok" ELSE "Err")

DbUpsertScript(script, ok) ==
    /\ UpsertScript(script, ok)
    /\ UNCHANGED <<now, metrics_history, metrics_seq, device_cache,
                   cache_set_at, sync_queue, sync_queue_seq, backend, lockVars, execVars,
                   syncVars, schedVars>>

\* SELECT ... FROM scripts WHERE is_active = 1
ActiveScripts == {row.script : row \in {r \in scripts : r.script.is_active}}

\* the bytes of the category and name texts of the model
TextOf(str) ==
    CASE str = "" -> <<>>
      [] str = "c1" -> <<99, 49>>
      [] str = "general" -> <<103, 101, 110, 101, 114, 97, 108>>
      [] str = "Zeta" -> <<90, 101, 116, 97>>
      [] str = "n1" -> <<110, 49>>
      [] str = "n2" -> <<110, 50>>
      [] str = "n3" -> <<110, 51>>
      [] str = "n4" -> <<110, 52>>

\* (mutant) ORDER BY name alone
CategoryNameBeforeByName(rows) ==
    {pair \in rows \X rows :
        TextLess(TextOf(pair[1].name), TextOf(pair[2].name))}

\* ORDER BY category, name
CategoryNameBefore(rows) ==
    {pair \in rows \X rows :
        \/ TextLess(TextOf(pair[1].category), TextOf(pair[2].category))
        \/ /\ pair[1].category = pair[2].category
           /\ TextLess(TextOf(pair[1].name), TextOf(pair[2].name))}

\* ORDER BY name
NameBefore(rows) ==
    {pair \in rows \X rows :
        TextLess(TextOf(pair[1].name), TextOf(pair[2].name))}

\* the results the SELECT of get_all_scripts may give
AllScriptsListings == Listings(ActiveScripts, CategoryNameBefore(ActiveScripts))

GetAllScripts ==
    /\ \E listing \in AllScriptsListings :
          call' = Call("get_all_scripts", None,
                 listing)
    /\ UNCHANGED <<now, storeVars, backend, lockVars, execVars, syncVars, schedVars>>

\* SELECT ... WHERE is_active = 1 AND category = ?1
ActiveInCategory(category) == {s \in ActiveScripts : s.category = category}

GetScriptsByCategory(category) ==
    /\ \E listing \in Listings(ActiveInCategory(category),
                                NameBefore(ActiveInCategory(category))) :
          call' = Call("get_scripts_by_category", category,
                 listing)
    /\ UNCHANGED <<now, storeVars, backend, lockVars, execVars, syncVars, schedVars>>

\* SELECT COUNT(*) FROM scripts WHERE is_active = 1
GetScriptsCount ==
    /\ call' = Call("get_scripts_count", None,
                 Cardinality(ActiveScripts))
    /\ UNCHANGED <<now, storeVars, backend, lockVars, execVars, syncVars, schedVars>>

----------------------------------------------------------------------------
(* Metrics operations *)

Measurements == {"m1", "m2"}

\* LocalMetrics values a caller may pass to save_metrics: the measures, and
\* the id, timestamp and synced fields the struct also carries
MetricsM1 ==
    [id |-> None, timestamp |-> "", measures |-> "m1", synced |-> FALSE]
MetricsInputs ==
    {MetricsM1,
     [id |-> Some(1), timestamp |-> "2020-01-01 00:00:00", measures |-> "m2",
      synced |-> TRUE]}

\* (mutant) the id the caller put in the sample is stored when there is one
NewMetricsRowCallerId(seq, metrics, at) ==
    [id |-> IF metrics.id = None THEN seq + 1 ELSE metrics.id[1],
     timestamp |-> at, measures |-> metrics.measures, synced |-> FALSE]

\* the row of INSERT INTO metrics_history (cpu_usage, ..., health_status):
\* id from the AUTOINCREMENT sequence, timestamp CURRENT_TIMESTAMP, synced 0
NewMetricsRow(seq, metrics, at) ==
    [id |-> seq + 1, timestamp |-> at, measures |-> metrics.measures,
     synced |-> FALSE]

SaveMetrics(metrics) ==
    /\ metrics_seq < MaxSamples
    /\ metrics_seq' = metrics_seq + 1
    /\ metrics_history' =
          metrics_history \cup {NewMetricsRow(metrics_seq, metrics, now)}
    /\ call' = Call("save_metrics", metrics,
                 NewMetricsRow(metrics_seq, metrics, now).id)
    /\ UNCHANGED <<now, scripts, device_cache, cache_set_at, sync_queue,
                   sync_queue_seq, backend, lockVars, execVars, syncVars, schedVars>>

\* (mutant) the sweep does not look at the synced flag
OldWhateverSynced(row, t) ==
    TextLess(DatetimeText(row.timestamp),
             DatetimeText(t - RETENTION_DAYS * SecondsPerDay))

\* WHERE timestamp < datetime('now', '-7 days') AND synced = 1
OldSynced(row, t) ==
    /\ TextLess(DatetimeText(row.timestamp),
                DatetimeText(t - RETENTION_DAYS * SecondsPerDay))
    /\ row.synced

MetricIds == 1..(MaxSamples + 1)
\* the id lists passed to mark_metrics_synced: up to two ids, stored or not
IdLists == {<<>>} \cup {<<i>> : i \in MetricIds}
           \cup {<<i, j>> : i, j \in MetricIds}

\* (mutant) the statement flips the flag
SetSyncedToggle(table, id) ==
    {IF row.id = id THEN [row EXCEPT !.synced = ~row.synced] ELSE row :
        row \in table}

\* UPDATE metrics_history SET synced = 1 WHERE id = ?1
SetSynced(table, id) ==
    {IF row.id = id THEN [row EXCEPT !.synced = TRUE] ELSE row : row \in table}

RECURSIVE MarkSyncedFromAbortMissing(_, _, _, _)
\* (mutant) an id that is not stored ends the loop with an error
MarkSyncedFromAbortMissing(table, ids, i, fail_at) ==
    IF i > Len(ids) THEN [table |-> table, ok |-> TRUE]
    ELSE IF i = fail_at \/ ids[i] \notin {row.id : row \in table}
            THEN [table |-> table, ok |-> FALSE]
    ELSE MarkSyncedFromAbortMissing(SetSynced(table, ids[i]), ids, i + 1,
                                    fail_at)

RECURSIVE MarkSyncedFrom(_, _, _, _)
\* `for id in ids { conn.execute(...)?; }` from the i-th id on; the
\* fail_at-th execute fails (0: none does) and `?` returns its error, the
\* statements before it staying applied
MarkSyncedFrom(table, ids, i, fail_at) ==
    IF i > Len(ids) THEN [table |-> table, ok |-> TRUE]
    ELSE IF i = fail_at THEN [table |-> table, ok |-> FALSE]
    ELSE MarkSyncedFrom(SetSynced(table, ids[i]), ids, i + 1, fail_at)

\* one mark_metrics_synced call, the connection locked throughout
MarkMetricsSynced(ids, fail_at) ==
    /\ metrics_history' = MarkSyncedFrom(metrics_history, ids, 1, fail_at).table
    /\ call' = Call("mark_metrics_synced", [ids |-> ids, fail_at |-> fail_at],
                 IF MarkSyncedFrom(metrics_history, ids, 1, fail_at).ok
                    THEN "Ok" ELSE "Err")
    /\ UNCHANGED <<now, scripts, metrics_seq, device_cache, cache_set_at,
                   sync_queue, sync_queue_seq, backend, lockVars, execVars, syncVars, schedVars>>

\* mark_metrics_synced statement by statement: the call takes the lock
MarkLock(ids, fail_at) ==
    /\ lock = None
    /\ lock' = Some("foreground")
    /\ mark_ids' = ids
    /\ mark_i' = 1
    /\ mark_fail' = fail_at
    /\ mark_before' = metrics_history
    /\ UNCHANGED <<now, storeVars, call, backend, execVars, syncVars,
                   schedVars>>

\* one conn.execute of the loop succeeds
MarkStatement ==
    /\ lock = Some("foreground")
    /\ mark_i <= Len(mark_ids)
    /\ mark_i # mark_fail
    /\ metrics_history' = SetSynced(metrics_history, mark_ids[mark_i])
    /\ mark_i' = mark_i + 1
    /\ UNCHANGED <<now, scripts, metrics_seq, device_cache, cache_set_at,
                   sync_queue, sync_queue_seq, call, backend, execVars,
                   syncVars, schedVars, lock, mark_ids, mark_fail,
                   mark_before>>

\* the loop is over, or a conn.execute fails and `?` returns: the guard is
\* dropped
MarkUnlock ==
    /\ lock = Some("foreground")
    /\ mark_i > Len(mark_ids) \/ mark_i = mark_fail
    /\ lock' = LockAfterCall("foreground")
    /\ call' = Call("mark_metrics_synced",
                 [ids |-> mark_ids, fail_at |-> mark_fail],
                 IF mark_i > Len(mark_ids) THEN "Ok" ELSE "Err")
    /\ UNCHANGED <<now, storeVars, backend, execVars, syncVars, schedVars,
                   markVars>>

UNSYNCED_BATCH == 100       \* "LIMIT 100"

\* ORDER BY timestamp ASC
TimestampBefore(rows) ==
    {pair \in rows \X rows :
        TextLess(DatetimeText(pair[1].timestamp),
                 DatetimeText(pair[2].timestamp))}

\* (mutant) the SELECT runs without the lock
GetUnsyncedMetricsUnlocked ==
    /\ \E listing \in Listings({row \in metrics_history : ~row.synced},
             TimestampBefore({row \in metrics_history : ~row.synced})) :
          call' = Call("get_unsynced_metrics", None,
                 Limit(listing, UNSYNCED_BATCH))
    /\ UNCHANGED <<now, storeVars, backend, execVars, syncVars, schedVars,
                   lockVars>>

\* one get_unsynced_metrics call: SELECT ... WHERE synced = 0 ORDER BY
\* timestamp ASC LIMIT 100, under the lock
GetUnsyncedMetrics ==
    /\ lock = None
    /\ \E listing \in Listings({row \in metrics_history : ~row.synced},
             TimestampBefore({row \in metrics_history : ~row.synced})) :
          call' = Call("get_unsynced_metrics", None,
                 Limit(listing, UNSYNCED_BATCH))
    /\ UNCHANGED <<now, storeVars, backend, execVars, syncVars, schedVars,
                   lockVars>>

\* one cleanup_old_metrics call
CleanupOldMetrics(ok) ==
    /\ metrics_history' =
          IF ok THEN {row \in metrics_history : ~OldSynced(row, now)}
                ELSE metrics_history
    /\ call' = Call("cleanup_old_metrics", None,
                 IF ok
                 THEN Some(Cardinality({row \in metrics_history :
                 OldSynced(row, now)}))
                 ELSE None)

DbCleanupOldMetrics(ok) ==
    /\ CleanupOldMetrics(ok)
    /\ UNCHANGED <<now, scripts, metrics_seq, device_cache, cache_set_at,
                   sync_queue, sync_queue_seq, backend, lockVars, execVars, syncVars, schedVars>>

----------------------------------------------------------------------------
(* Cache operations *)

CacheKeys == {"device_id", "k"}
CacheValues == {"v1", "v2"}
TtlMinutes == {None, Some(0), Some(DEVICE_ID_TTL_MINUTES)}

\* ttl_minutes.map(|m| format!("datetime('now', '+{} minutes')", m))
ExpiresParam(ttl) == IF ttl = None THEN None ELSE Some(ExpiresText(ttl[1]))

\* INSERT OR REPLACE INTO device_cache (key, value, expires_at)
ReplaceCacheRow(table, key, value, expires) ==
    {row \in table : row.key # key}
    \cup {[key |-> key, value |-> value, expires_at |-> expires]}

SetCache(key, value, ttl) ==
    /\ device_cache' =
          ReplaceCacheRow(device_cache, key, value, ExpiresParam(ttl))
    /\ cache_set_at' = [cache_set_at EXCEPT ![key] = Some([at |-> now, ttl |-> ttl])]
    /\ call' = Call("set_cache", <<key, value, ttl>>,
                 "Ok")
    /\ UNCHANGED <<now, scripts, metrics_history, metrics_seq, sync_queue,
                   sync_queue_seq, backend, lockVars, execVars, syncVars, schedVars>>

\* (mutant) the test for NULL left out: NULL > text is not true
UnexpiredNullHidden(row, t) ==
    /\ row.expires_at # None
    /\ TextLess(DatetimeText(t), row.expires_at[1])

\* expires_at IS NULL OR expires_at > datetime('now')
Unexpired(row, t) ==
    \/ row.expires_at = None
    \/ TextLess(DatetimeText(t), row.expires_at[1])

\* SELECT value FROM device_cache WHERE key = ?1 AND (...): Some(value), or
\* None on QueryReturnedNoRows
CacheLookup(key) ==
    LET hit == {row \in device_cache : row.key = key /\ Unexpired(row, now)}
    IN  IF hit = {} THEN None ELSE Some((CHOOSE row \in hit : TRUE).value)

\* (mutant) a read takes the entry out of the table
GetCacheEvicting(key) ==
    /\ call' = Call("get_cache", key,
                 CacheLookup(key))
    /\ device_cache' = {row \in device_cache : row.key # key}
    /\ UNCHANGED <<now, scripts, metrics_history, metrics_seq, cache_set_at,
                   sync_queue, sync_queue_seq, backend, lockVars, execVars, syncVars, schedVars>>

GetCache(key) ==
    /\ call' = Call("get_cache", key,
                 CacheLookup(key))
    /\ UNCHANGED <<now, storeVars, backend, lockVars, execVars, syncVars, schedVars>>

DeleteCache(key) ==
    /\ device_cache' = {row \in device_cache : row.key # key}
    /\ call' = Call("delete_cache", key,
                 "Ok")
    /\ UNCHANGED <<now, scripts, metrics_history, metrics_seq, cache_set_at,
                   sync_queue, sync_queue_seq, backend, lockVars, execVars, syncVars, schedVars>>

\* WHERE expires_at < datetime('now'); a NULL expires_at compares to NULL
Expired(row, t) ==
    /\ row.expires_at # None
    /\ TextLess(row.expires_at[1], DatetimeText(t))

\* one cleanup_expired_cache call
CleanupExpiredCache(ok) ==
    /\ device_cache' =
          IF ok THEN {row \in device_cache : ~Expired(row, now)}
                ELSE device_cache
    /\ call' = Call("cleanup_expired_cache", None,
                 IF ok
                 THEN Some(Cardinality({row \in device_cache :
                 Expired(row, now)}))
                 ELSE None)

DbCleanupExpiredCache(ok) ==
    /\ CleanupExpiredCache(ok)
    /\ UNCHANGED <<now, scripts, metrics_history, metrics_seq, cache_set_at,
                   sync_queue, sync_queue_seq, backend, lockVars, execVars, syncVars, schedVars>>

----------------------------------------------------------------------------
(* Scripts sync: sync_scripts_from_supabase *)

\* the two callers of sync_scripts_from_supabase: the task of
\* start_sync_loop and the db_sync_scripts command
SyncCallers == {"sched", "manual"}

\* rows of the backend's scripts table, as JSON objects; a field that is
\* null, missing or of another type is None
JsonA ==
    [id |-> Some("a"), slug |-> Some("s1"), name |-> Some("n1"),
     description |-> None, category |-> Some("c1"), language |-> None,
     code |-> Some("x"), icon |-> None, is_active |-> Some(TRUE),
     requires_admin |-> None, estimated_time |-> None,
     success_message |-> None]
JsonA2 == [JsonA EXCEPT !.code = Some("y")]
JsonB == [JsonA EXCEPT !.id = Some("b"), !.slug = Some("s2"),
                       !.name = Some("n2")]
JsonC == [JsonA EXCEPT !.id = Some("c"), !.slug = Some("s3"),
                       !.name = Some("n3"), !.category = None,
                       !.is_active = None]
JsonD == [JsonA EXCEPT !.id = Some("d"), !.slug = None, !.name = Some("n4")]
JsonE == [JsonA EXCEPT !.id = Some("e")]
JsonF == [JsonA EXCEPT !.id = Some("f"), !.slug = Some("s4"),
                       !.code = Some("")]

\* the arrays the endpoint may answer with: three valid rows and one
\* without slug; slug s1 moved from id a to id e, and a row with an empty
\* body; id a, changed, next to id e under the same slug
Responses ==
    <<  <<JsonA, JsonB, JsonC, JsonD>>,
        <<JsonE, JsonF, JsonB>>,
        <<JsonA2, JsonE>>  >>

FetchOutcomes == {"ok", "network_error", "api_error", "json_error"}

OrDefault(opt, default) == IF opt = None THEN default ELSE opt[1]

\* the LocalScript built from one element of the array
ToLocalScript(json) ==
    [id |-> OrDefault(json.id, ""),
     slug |-> OrDefault(json.slug, ""),
     name |-> OrDefault(json.name, ""),
     description |-> json.description,
     category |-> OrDefault(json.category, "general"),
     language |-> OrDefault(json.language, "powershell"),
     code |-> OrDefault(json.code, ""),
     icon |-> json.icon,
     is_active |-> OrDefault(json.is_active, TRUE),
     requires_admin |-> OrDefault(json.requires_admin, FALSE),
     estimated_time |-> json.estimated_time,
     success_message |-> json.success_message]

\* (mutant) the body is not looked at
ValidScriptSlugOnly(script) == script.slug # ""

\* !local_script.slug.is_empty() && !local_script.code.is_empty()
ValidScript(script) == script.slug # "" /\ script.code # ""

\* the backend's table changes
BackendChange ==
    /\ \E b \in 1..Len(Responses) : b # backend /\ backend' = b
    /\ UNCHANGED <<now, storeVars, call, syncVars, schedVars, execVars,
                   lockVars>>

\* the caller enters sync_scripts_from_supabase and sends the request
SyncBegin(p) ==
    /\ sync_pc' = [sync_pc EXCEPT ![p] = "fetch"]
    /\ sync_resp' = [sync_resp EXCEPT ![p] = <<>>]
    /\ sync_idx' = [sync_idx EXCEPT ![p] = 1]
    /\ sync_count' = [sync_count EXCEPT ![p] = 0]
    /\ sync_log' = [sync_log EXCEPT ![p] = 0]
    /\ sync_ret' = [sync_ret EXCEPT ![p] = None]

\* the request ends: a transport error, a non-success status, a body that
\* is no JSON array, or the array
SyncFetch(p, outcome) ==
    /\ sync_pc[p] = "fetch"
    /\ IF outcome = "ok"
          THEN /\ sync_resp' = [sync_resp EXCEPT ![p] = Responses[backend]]
               /\ sync_pc' = [sync_pc EXCEPT ![p] = "loop"]
               /\ UNCHANGED sync_ret
          ELSE /\ sync_ret' = [sync_ret EXCEPT ![p] =
                      Some([ok |-> FALSE, count |-> 0, err |-> outcome])]
               /\ sync_pc' = [sync_pc EXCEPT ![p] = "done"]
               /\ UNCHANGED sync_resp
    /\ UNCHANGED <<now, storeVars, call, backend, lockVars, execVars, sync_idx, sync_count,
                   sync_log, schedVars>>

\* one iteration of `for script in scripts`
SyncIterate(p, ok) ==
    /\ sync_pc[p] = "loop"
    /\ sync_idx[p] <= Len(sync_resp[p])
    /\ LET local_script == ToLocalScript(sync_resp[p][sync_idx[p]])
       IN  IF ValidScript(local_script)
              THEN /\ lock = None
                   /\ UpsertScript(local_script, ok)
                   /\ lock' = LockAfterCall(p)
                   /\ sync_count' = [sync_count EXCEPT ![p] =
                                        IF ok THEN @ + 1 ELSE @]
                   /\ sync_log' = [sync_log EXCEPT ![p] =
                                      IF ok THEN @ ELSE @ + 1]
              ELSE /\ ok
                   /\ UNCHANGED <<scripts, call, sync_count, sync_log, lock>>
    /\ sync_idx' = [sync_idx EXCEPT ![p] = @ + 1]
    /\ UNCHANGED <<now, metrics_history, metrics_seq, device_cache,
                   cache_set_at, sync_queue, sync_queue_seq, backend, markVars, execVars,
                   sync_pc, sync_resp, sync_ret, schedVars>>

\* (mutant) the pass fails when an element of the array was not stored
SyncReturnStrict(p) ==
    /\ sync_pc[p] = "loop"
    /\ sync_idx[p] > Len(sync_resp[p])
    /\ sync_ret' = [sync_ret EXCEPT ![p] =
                       IF sync_count[p] = Len(sync_resp[p])
                          THEN Some([ok |-> TRUE, count |-> sync_count[p],
                                     err |-> ""])
                          ELSE Some([ok |-> FALSE, count |-> 0,
                                     err |-> "validation_error"])]
    /\ sync_pc' = [sync_pc EXCEPT ![p] = "done"]
    /\ UNCHANGED <<now, storeVars, call, backend, lockVars, execVars, sync_resp, sync_idx,
                   sync_count, sync_log, schedVars>>

\* Ok(count)
SyncReturn(p) ==
    /\ sync_pc[p] = "loop"
    /\ sync_idx[p] > Len(sync_resp[p])
    /\ sync_ret' = [sync_ret EXCEPT ![p] =
                       Some([ok |-> TRUE, count |-> sync_count[p],
                             err |-> ""])]
    /\ sync_pc' = [sync_pc EXCEPT ![p] = "done"]
    /\ UNCHANGED <<now, storeVars, call, backend, lockVars, execVars, sync_resp, sync_idx,
                   sync_count, sync_log, schedVars>>

\* the db_sync_scripts command is invoked
DbSyncScripts ==
    /\ sync_pc["manual"] \in {"idle", "done"}
    /\ SyncBegin("manual")
    /\ UNCHANGED <<now, storeVars, call, backend, lockVars, execVars, schedVars>>

----------------------------------------------------------------------------
(* Device id and remote executions: get_or_fetch_device_id,                *)
(* check_remote_executions                                                 *)

DeviceId == "dev1"

\* how the devices request ends: a transport error; a body that is no JSON
\* array (the status is not looked at); an empty array; an array whose first
\* element has no string id; an array whose first element has the id
DeviceOutcomes == {"network_error", "json_error", "empty", "no_id", "found"}

\* (mutant) one error text for every failure of the lookup
DeviceErrorGeneric(outcome) == "Error"

\* the Err(String) of get_or_fetch_device_id
DeviceError(outcome) ==
    IF outcome = "network_error" THEN "Network error"
    ELSE IF outcome = "json_error" THEN "JSON error"
    ELSE "Device not found"

\* rows of the remote_executions answer, as JSON objects; scripts is
\* "absent" when the object has no such key, None when it is null
ExecJsonA ==
    [id |-> Some("x1"), script_id |-> Some("a"),
     scripts |-> Some([name |-> Some("n1"), code |-> Some("x"),
                       language |-> None]),
     requested_by |-> None, status |-> Some("authorized")]
ExecResponse ==
    <<ExecJsonA,
      [ExecJsonA EXCEPT !.id = Some("x2"), !.scripts = "absent"],
      [ExecJsonA EXCEPT !.id = Some("x3"), !.scripts = None],
      [ExecJsonA EXCEPT !.id = Some("x4"), !.status = None]>>

ExecQueryOutcomes == {"network_error", "api_error", "json_error", "ok"}

\* the closure of filter_map gives Some(RemoteExecution)
Mappable(e) ==
    /\ e.scripts # "absent"
    /\ e.id # None
    /\ e.script_id # None
    /\ e.status # None

\* the RemoteExecution built from one element
ToRemoteExecution(e) ==
    [id |-> e.id[1], script_id |-> e.script_id[1],
     script_name |-> IF e.scripts = None THEN None ELSE e.scripts[1].name,
     script_code |-> IF e.scripts = None THEN None ELSE e.scripts[1].code,
     script_language |->
         IF e.scripts = None THEN None ELSE e.scripts[1].language,
     requested_by |-> e.requested_by, status |-> e.status[1]]

RECURSIVE FilterMap(_)
\* executions.into_iter().filter_map(...).collect()
FilterMap(es) ==
    IF es = <<>> THEN <<>>
    ELSE (IF Mappable(Head(es)) THEN <<ToRemoteExecution(Head(es))>>
                                ELSE <<>>)
         \o FilterMap(Tail(es))

\* get_cache returning Err, next to its Ok(None) and Ok(Some(value))
GetCacheErr == <<"Err", "SqliteFailure">>

\* (mutant) get_cache answers, but the request is sent all the same
CachedDeviceIdNever(cache_ok) == FALSE

\* `if let Ok(Some(cached_id)) = db.get_cache("device_id")`; cache_ok =
\* FALSE is get_cache failing
CachedDeviceId(cache_ok) == cache_ok /\ CacheLookup("device_id") # None

\* the db_check_remote_executions command is invoked:
\* get_or_fetch_device_id reads the cache and returns the cached id, after
\* which the remote_executions request is sent, or sends the devices
\* request
DbCheckRemoteExecutions(cache_ok) ==
    /\ exec_pc \in {"idle", "done"}
    /\ lock = None
    /\ lock' = LockAfterCall("exec")
    /\ call' = Call("get_cache", "device_id",
                 IF cache_ok THEN CacheLookup("device_id") ELSE GetCacheErr)
    /\ exec_ret' = None
    /\ exec_answer' = ""
    /\ IF CachedDeviceId(cache_ok)
          THEN /\ exec_device' = Some([ok |-> TRUE,
                                       id |-> CacheLookup("device_id")[1],
                                       err |-> ""])
               /\ exec_looked' = FALSE
               /\ exec_queried' = TRUE
               /\ exec_pc' = "query"
          ELSE /\ exec_device' = None
               /\ exec_looked' = TRUE
               /\ exec_queried' = FALSE
               /\ exec_pc' = "lookup"
    /\ UNCHANGED <<now, storeVars, backend, markVars, syncVars, schedVars>>

\* (mutant) the remote_executions request is sent whatever the lookup gave
ExecAfterLookupAlwaysQuery(found) ==
    [pc |-> "query", queried |-> TRUE, ret |-> None]

\* `Ok(id) => id, Err(_) => return Ok(vec![])` and the request that follows
ExecAfterLookup(found) ==
    IF found
       THEN [pc |-> "query", queried |-> TRUE, ret |-> None]
       ELSE [pc |-> "done", queried |-> FALSE,
             ret |-> Some([ok |-> TRUE, items |-> <<>>, err |-> ""])]

\* the devices request ends; on an id, set_cache("device_id", id, Some(60))
\* with its result dropped (set_ok = FALSE is set_cache failing)
DeviceFetch(outcome, set_ok) ==
    /\ exec_pc = "lookup"
    /\ exec_answer' = outcome
    /\ IF outcome = "found"
          THEN /\ lock = None
               /\ lock' = LockAfterCall("exec")
               /\ device_cache' =
                     IF set_ok
                        THEN ReplaceCacheRow(device_cache, "device_id",
                                DeviceId,
                                ExpiresParam(Some(DEVICE_ID_TTL_MINUTES)))
                        ELSE device_cache
               /\ cache_set_at' =
                     IF set_ok
                        THEN [cache_set_at EXCEPT !["device_id"] =
                                Some([at |-> now,
                                      ttl |-> Some(DEVICE_ID_TTL_MINUTES)])]
                        ELSE cache_set_at
               /\ call' = Call("set_cache",
                            <<"device_id", DeviceId,
                              Some(DEVICE_ID_TTL_MINUTES)>>,
                            IF set_ok THEN "Ok" ELSE "Err")
               /\ exec_device' = Some([ok |-> TRUE, id |-> DeviceId,
                                       err |-> ""])
          ELSE /\ set_ok
               /\ exec_device' = Some([ok |-> FALSE, id |-> "",
                                       err |-> DeviceError(outcome)])
               /\ UNCHANGED <<device_cache, cache_set_at, call, lock>>
    /\ exec_pc' = ExecAfterLookup(outcome = "found").pc
    /\ exec_queried' = ExecAfterLookup(outcome = "found").queried
    /\ exec_ret' = ExecAfterLookup(outcome = "found").ret
    /\ UNCHANGED <<now, scripts, metrics_history, metrics_seq, sync_queue,
                   sync_queue_seq, backend, markVars, syncVars, schedVars, exec_looked>>

\* the remote_executions request ends: a transport error is returned, a
\* non-success status and a body that is no array give an empty list
ExecQuery(outcome) ==
    /\ exec_pc = "query"
    /\ exec_ret' =
          IF outcome = "network_error"
             THEN Some([ok |-> FALSE, items |-> <<>>, err |-> "Network error"])
          ELSE IF outcome = "ok"
             THEN Some([ok |-> TRUE, items |-> FilterMap(ExecResponse),
                        err |-> ""])
          ELSE Some([ok |-> TRUE, items |-> <<>>, err |-> ""])
    /\ exec_pc' = "done"
    /\ UNCHANGED <<now, storeVars, call, backend, lockVars, syncVars, schedVars,
                   exec_answer, exec_device, exec_looked, exec_queried>>

----------------------------------------------------------------------------
(* Background sync loop: start_sync_loop *)

\* tokio::time::sleep(Duration::from_secs(5)) ends; the initial sync starts
SchedWake ==
    /\ sched_pc = "sleep"
    /\ now >= sched_wake
    /\ sched_pc' = "initial_sync"
    /\ SyncBegin("sched")
    /\ UNCHANGED <<now, storeVars, call, backend, lockVars, execVars, sched_wake, ticker>>

\* the initial sync has returned; interval(Duration::from_secs(300)): the
\* first tick is due at once
SchedInterval ==
    /\ sched_pc = "initial_sync"
    /\ sync_pc["sched"] = "done"
    /\ ticker' = Some(now)
    /\ sched_pc' = "tick"
    /\ UNCHANGED <<now, storeVars, call, backend, lockVars, execVars, syncVars, sched_wake>>

\* ticker.tick().await completes: the deadline moves one period on (missed
\* ticks burst), and the periodic sync starts
SchedTick ==
    /\ sched_pc = "tick"
    /\ now >= ticker[1]
    /\ ticker' = Some(ticker[1] + SYNC_PERIOD_SECS)
    /\ sched_pc' = "sync"
    /\ SyncBegin("sched")
    /\ UNCHANGED <<now, storeVars, call, backend, lockVars, execVars, sched_wake>>

\* (mutant) the sweeps wait for a sync that succeeded
SyncOverOk(p) == sync_pc[p] = "done" /\ sync_ret[p][1].ok

\* sync_scripts_from_supabase(&db).await has returned, Ok or Err
SyncOver(p) == sync_pc[p] = "done"

\* (mutant) a failed sweep ends the task, as `?` would
AfterMetricsSweepStrict(ok) == IF ok THEN "cleanup_cache" ELSE "stopped"

\* `if let Err(e) = db.cleanup_old_metrics() { println!(...) }`: the loop
\* goes on to the cache sweep either way
AfterMetricsSweep(ok) == "cleanup_cache"

\* the periodic sync has returned; db.cleanup_old_metrics()
SchedCleanupMetrics(ok) ==
    /\ sched_pc = "sync"
    /\ SyncOver("sched")
    /\ lock = None
    /\ lock' = LockAfterCall("sched")
    /\ CleanupOldMetrics(ok)
    /\ sched_pc' = AfterMetricsSweep(ok)
    /\ UNCHANGED <<now, scripts, metrics_seq, device_cache, cache_set_at,
                   sync_queue, sync_queue_seq, backend, markVars, execVars, syncVars, sched_wake,
                   ticker>>

\* db.cleanup_expired_cache(), then back to the top of the loop
SchedCleanupCache(ok) ==
    /\ sched_pc = "cleanup_cache"
    /\ lock = None
    /\ lock' = LockAfterCall("sched")
    /\ CleanupExpiredCache(ok)
    /\ sched_pc' = "tick"
    /\ UNCHANGED <<now, scripts, metrics_history, metrics_seq, cache_set_at,
                   sync_queue, sync_queue_seq, backend, markVars, execVars, syncVars, sched_wake,
                   ticker>>

----------------------------------------------------------------------------
(* Specifications *)

Init ==
    /\ now = 0
    /\ scripts = {}
    /\ metrics_history = {}
    /\ metrics_seq = 0
    /\ device_cache = {}
    /\ cache_set_at = [k \in CacheKeys |-> None]
    /\ sync_queue = {}
    /\ sync_queue_seq = 0
    /\ call = [op |-> "new", arg |-> None, ret |-> "Ok", again |-> FALSE]
    /\ backend \in 1..Len(Responses)
    /\ sync_pc = [p \in SyncCallers |-> "idle"]
    /\ sync_resp = [p \in SyncCallers |-> <<>>]
    /\ sync_idx = [p \in SyncCallers |-> 1]
    /\ sync_count = [p \in SyncCallers |-> 0]
    /\ sync_log = [p \in SyncCallers |-> 0]
    /\ sync_ret = [p \in SyncCallers |-> None]
    /\ sched_pc = "sleep"
    /\ sched_wake = STARTUP_DELAY_SECS
    /\ ticker = None
    /\ exec_pc = "idle"
    /\ exec_answer = ""
    /\ exec_device = None
    /\ exec_looked = FALSE
    /\ exec_queried = FALSE
    /\ exec_ret = None
    /\ lock = None
    /\ mark_ids = <<>>
    /\ mark_i = 1
    /\ mark_fail = 0
    /\ mark_before = {}

\* the background task of start_sync_loop next to callers of the sync
\* queue and of save_metrics; the backend serves the first array, the clock
\* reaches the end of the startup sleep, one sample is saved, an item fails
\* once
Next ==
    \/ AdvanceClock({STARTUP_DELAY_SECS})
    \/ SchedWake
    \/ SchedInterval
    \/ SchedTick
    \/ \E ok \in BOOLEAN : SchedCleanupMetrics(ok)
    \/ \E ok \in BOOLEAN : SchedCleanupCache(ok)
    \/ \E outcome \in {"ok", "network_error"} : SyncFetch("sched", outcome)
    \/ SyncIterate("sched", TRUE)
    \/ SyncReturn("sched")
    \/ \E t \in Tables, o \in Operations, d \in Payloads : AddToSyncQueue(t, o, d)
    \/ GetPendingSyncItems(10)
    \/ \E id \in QueueIds : MarkSyncSuccess(id)
    \/ \E id \in QueueIds :
          /\ \A row \in sync_queue : row.id = id => row.retry_count = 0
          /\ MarkSyncFailed(id, "e1")
    \/ (metrics_seq < 1 /\ SaveMetrics(MetricsM1))

InitFirstArray == Init /\ backend = 1

Spec == InitFirstArray /\ [][Next]_vars

\* the sync queue's operations, called in any order; an item's second
\* failure comes with the first or the second error text, the others with
\* the first
NextOutbox ==
    \/ AdvanceClock({1})
    \/ \E t \in Tables, o \in Operations, d \in Payloads : AddToSyncQueue(t, o, d)
    \/ \E limit \in Limits : GetPendingSyncItems(limit)
    \/ \E id \in QueueIds : MarkSyncSuccess(id)
    \/ \E id \in QueueIds : MarkSyncFailed(id, "e1")
    \/ \E id \in QueueIds :
          /\ \A row \in sync_queue : row.id = id => row.retry_count = 1
          /\ MarkSyncFailed(id, "e2")

SpecOutbox == InitFirstArray /\ [][NextOutbox]_vars

\* the script operations, called in any order, and the manual sync
NextScripts ==
    \/ AdvanceClock({1})
    \/ \E r \in ScriptInputs, ok \in BOOLEAN : DbUpsertScript(r, ok)
    \/ GetScriptsCount
    \/ BackendChange
    \/ DbSyncScripts
    \/ \E outcome \in FetchOutcomes : SyncFetch("manual", outcome)
    \/ \E ok \in BOOLEAN : SyncIterate("manual", ok)
    \/ SyncReturn("manual")

SpecScripts == Init /\ [][NextScripts]_vars

\* upsert_script and the read operations of the scripts table, called in
\* any order
NextListing ==
    \/ \E r \in ListedInputs : DbUpsertScript(r, TRUE)
    \/ GetAllScripts
    \/ \E category \in Categories : GetScriptsByCategory(category)
    \/ GetScriptsCount

SpecListing == InitFirstArray /\ [][NextListing]_vars

\* the manual sync alone writes the scripts table
NextPull ==
    \/ AdvanceClock({1})
    \/ BackendChange
    \/ DbSyncScripts
    \/ \E outcome \in FetchOutcomes : SyncFetch("manual", outcome)
    \/ \E ok \in BOOLEAN : SyncIterate("manual", ok)
    \/ SyncReturn("manual")

SpecPull == Init /\ [][NextPull]_vars

\* the metrics operations, called in any order; the clock reaches 7 days
\* and one second past 7 days; no statement of mark_metrics_synced fails, or
\* the second does
NextMetrics ==
    \/ AdvanceClock({RETENTION_DAYS * SecondsPerDay,
                     RETENTION_DAYS * SecondsPerDay + 1})
    \/ \E metrics \in MetricsInputs : SaveMetrics(metrics)
    \/ \E ids \in IdLists, fail_at \in {0, 2} : MarkMetricsSynced(ids, fail_at)
    \/ \E ok \in BOOLEAN : DbCleanupOldMetrics(ok)

SpecMetrics == InitFirstArray /\ [][NextMetrics]_vars

\* the db_check_remote_executions command, called again and again while the
\* clock passes one second, 60 minutes and one second more, next to the
\* sweep of the cache and a delete of the cached id
NextDevice ==
    \/ AdvanceClock({1, 60 * DEVICE_ID_TTL_MINUTES,
                     60 * DEVICE_ID_TTL_MINUTES + 1})
    \/ \E cache_ok \in BOOLEAN : DbCheckRemoteExecutions(cache_ok)
    \/ \E outcome \in DeviceOutcomes, set_ok \in BOOLEAN :
          DeviceFetch(outcome, set_ok)
    \/ \E outcome \in ExecQueryOutcomes : ExecQuery(outcome)
    \/ DeleteCache("device_id")
    \/ \E ok \in BOOLEAN : DbCleanupExpiredCache(ok)

SpecDevice == InitFirstArray /\ [][NextDevice]_vars

\* the id lists of the statement-by-statement calls
MarkedLists == {<<1>>, <<1, 2>>}

\* the tasks that send requests: the background task, the db_sync_scripts
\* command and the db_check_remote_executions command
NetworkTasks == {"sched", "manual", "exec"}

\* the task is suspended on `.send().await` or `.json().await`
NetworkPending(task) ==
    IF task = "exec" THEN exec_pc \in {"lookup", "query"}
                     ELSE sync_pc[task] = "fetch"

\* mark_metrics_synced statement by statement next to foreground calls, a
\* manual sync and a check_remote_executions call; a call that takes the
\* lock waits until the lock is free
NextLock ==
    \/ \E ids \in MarkedLists, fail_at \in {0, 2} : MarkLock(ids, fail_at)
    \/ MarkStatement
    \/ MarkUnlock
    \/ GetUnsyncedMetrics
    \/ (lock = None /\ SaveMetrics(MetricsM1))
    \/ DbSyncScripts
    \/ SyncFetch("manual", "ok")
    \/ SyncIterate("manual", TRUE)
    \/ SyncReturn("manual")
    \/ DbCheckRemoteExecutions(TRUE)
    \/ DeviceFetch("found", TRUE)
    \/ ExecQuery("ok")

SpecLock == InitFirstArray /\ [][NextLock]_vars

\* the instants of the background task's clock: the end of the startup
\* sleep, one period and two periods later
SchedInstants ==
    {STARTUP_DELAY_SECS, STARTUP_DELAY_SECS + SYNC_PERIOD_SECS,
     STARTUP_DELAY_SECS + 2 * SYNC_PERIOD_SECS}

LastInstant == STARTUP_DELAY_SECS + 2 * SYNC_PERIOD_SECS

\* the background task of start_sync_loop over two periods, every request
\* ending in any of its outcomes and every store call succeeding or failing,
\* next to one save_metrics
NextSched ==
    \/ AdvanceClock(SchedInstants)
    \/ SchedWake
    \/ SchedInterval
    \/ SchedTick
    \/ \E ok \in BOOLEAN : SchedCleanupMetrics(ok)
    \/ \E ok \in BOOLEAN : SchedCleanupCache(ok)
    \/ \E outcome \in FetchOutcomes : SyncFetch("sched", outcome)
    \/ \E ok \in BOOLEAN : SyncIterate("sched", ok)
    \/ SyncReturn("sched")
    \/ (metrics_seq < 1 /\ lock = None /\ SaveMetrics(MetricsM1))

\* the runtime keeps polling the spawned task, the timers fire and every
\* request ends
SpecSched ==
    /\ InitFirstArray
    /\ [][NextSched]_vars
    /\ WF_vars(AdvanceClock(SchedInstants))
    /\ WF_vars(SchedWake)
    /\ WF_vars(SchedInterval)
    /\ WF_vars(SchedTick)
    /\ WF_vars(\E ok \in BOOLEAN : SchedCleanupMetrics(ok))
    /\ WF_vars(\E ok \in BOOLEAN : SchedCleanupCache(ok))
    /\ WF_vars(\E outcome \in FetchOutcomes : SyncFetch("sched", outcome))
    /\ WF_vars(\E ok \in BOOLEAN : SyncIterate("sched", ok))
    /\ WF_vars(SyncReturn("sched"))

\* the startup sync of the background task next to manual syncs, every
\* request answered and every upsert_script succeeding; the backend's table
\* changes once, from the first array to the second
NextOverlap ==
    \/ AdvanceClock({STARTUP_DELAY_SECS})
    \/ (backend = 1 /\ BackendChange /\ backend' = 2)
    \/ SchedWake
    \/ SyncFetch("sched", "ok")
    \/ SyncIterate("sched", TRUE)
    \/ SyncReturn("sched")
    \/ DbSyncScripts
    \/ SyncFetch("manual", "ok")
    \/ SyncIterate("manual", TRUE)
    \/ SyncReturn("manual")

SpecOverlap == InitFirstArray /\ [][NextOverlap]_vars

\* the cache operations, called in any order
NextCache ==
    \/ AdvanceClock({1, 3601})
    \/ \E k \in CacheKeys, v \in CacheValues, ttl \in TtlMinutes : SetCache(k, v, ttl)
    \/ \E k \in CacheKeys : GetCache(k)
    \/ \E k \in CacheKeys : DeleteCache(k)
    \/ \E ok \in BOOLEAN : DbCleanupExpiredCache(ok)

SpecCache == Init /\ [][NextCache]_vars

----------------------------------------------------------------------------
(* Properties of the sync queue *)

QueueIdsOf(queue) == {row.id : row \in queue}
QueueRow(queue, id) == CHOOSE row \in queue : row.id = id
Listed(items) == {items[i].id : i \in 1..Len(items)}

\* the step is the call `op` with argument `arg`
Called(op, arg) ==
    /\ call'.op = op
    /\ call'.arg = arg
    /\ call' # call \/ sync_queue' # sync_queue

ParkedNotListed ==
    \A row \in sync_queue :
        row.retry_count >= MAX_RETRIES =>
            \A limit \in Limits : \A items \in PendingSyncItems(limit) :
                row.id \notin Listed(items)

ParkedKept ==
    \A row \in sync_queue :
        row.retry_count >= MAX_RETRIES =>
            \/ /\ row.id \in QueueIdsOf(sync_queue')
               /\ QueueRow(sync_queue', row.id).retry_count >= MAX_RETRIES
            \/ /\ call'.op = "mark_sync_success"
               /\ call'.arg = row.id

\* C3: an item whose retry_count has reached 5 is in no result of
\* get_pending_sync_items, in this state or a later one, and stays in the
\* table, still parked, through every step but mark_sync_success on its id.
C3_RetryBound == [](ParkedNotListed) /\ [][ParkedKept]_vars

\* a parked item is in the table next to an eligible one, and the listing
\* has just been taken
C3_Witness ==
    /\ call.op = "get_pending_sync_items"
    /\ Len(call.ret) > 0
    /\ \E row \in sync_queue : row.retry_count = MAX_RETRIES

\* C5: over every step an item's retry_count stays or grows by one; it grows
\* exactly in mark_sync_failed(id, e), which also sets last_error to e; no
\* other step touches retry_count or last_error; a new item starts at 0.
C5_RetryCountMonotone ==
    [][/\ \A row \in sync_queue :
             row.id \in QueueIdsOf(sync_queue') =>
                LET after == QueueRow(sync_queue', row.id)
                IN  /\ after.retry_count \in
                          {row.retry_count, row.retry_count + 1}
                    /\ after.retry_count = row.retry_count + 1 =>
                          /\ call'.op = "mark_sync_failed"
                          /\ call'.arg[1] = row.id
                          /\ after.last_error = Some(call'.arg[2])
                    /\ after.retry_count = row.retry_count =>
                          after.last_error = row.last_error
                    /\ \A e \in ErrorTexts :
                          Called("mark_sync_failed", <<row.id, e>>) =>
                              after.retry_count = row.retry_count + 1
       /\ \A after \in sync_queue' :
             after.id \notin QueueIdsOf(sync_queue) =>
                /\ call'.op = "add_to_sync_queue"
                /\ after.retry_count = 0
                /\ after.last_error = None]_vars

\* mark_sync_failed has acted twice on an item, with two error texts
C5_Witness ==
    /\ call.op = "mark_sync_failed"
    /\ \E row \in sync_queue :
          /\ row.id = call.arg[1]
          /\ row.retry_count = 2
          /\ row.last_error = Some("e2")

\* C6: every result of get_pending_sync_items lists the items in the order
\* they were enqueued (ascending id), and an eligible item left out by the
\* limit was enqueued after every item listed.
C6_FifoOrder ==
    \A limit \in Limits : \A items \in PendingSyncItems(limit) :
        /\ \A i, j \in 1..Len(items) : i < j => items[i].id < items[j].id
        /\ \A row \in sync_queue :
              Eligible(row) /\ row.id \notin Listed(items) =>
                  \A i \in 1..Len(items) : items[i].id < row.id

----------------------------------------------------------------------------
(* Properties of the scripts table and of the pull *)

\* the stored records without the synced_at stamp
Content(table) == {row.script : row \in table}
ScriptIds(table) == {row.script.id : row \in table}

\* C1: when upsert_script(r) succeeds right after a successful
\* upsert_script(r) of the same r, the table holds exactly one row with r.id
\* and the stored records, synced_at aside, are those the first call left.
C1_IdempotentUpsert ==
    [][(call'.op = "upsert_script" /\ call'.again /\ call'.ret = "Ok") =>
          /\ Content(scripts') = Content(scripts)
          /\ Cardinality({row \in scripts' :
                             row.script.id = call'.arg.id}) = 1]_vars

\* the same record has been upserted twice in a row, the clock having moved
\* in between, next to another stored record
C1_Witness ==
    /\ call.op = "upsert_script"
    /\ call.again
    /\ call.ret = "Ok"
    /\ \E row \in scripts : row.script = call.arg /\ row.synced_at = 1
    /\ Cardinality(scripts) = 2

\* C8: no two rows of scripts share an id, and no two share a slug.
C8_SlugUnique ==
    \A r1, r2 \in scripts :
        r1 # r2 => /\ r1.script.id # r2.script.id
                   /\ r1.script.slug # r2.script.slug

\* a pass has upserted id a and then id e under the same slug, after an
\* earlier pass stored id b
C8_Witness ==
    /\ sync_pc["manual"] = "done"
    /\ sync_resp["manual"] = Responses[3]
    /\ sync_count["manual"] = 2
    /\ ScriptIds(scripts) = {"b", "e"}

\* C9: upsert_script(r) leaves every row whose id is not r.id in the table,
\* as it was; when another id holds r.slug the call returns an error and
\* the table is unchanged.
C9_KeyedById ==
    [][call'.op = "upsert_script" =>
          /\ \A row \in scripts :
                row.script.id # call'.arg.id => row \in scripts'
          /\ (\E row \in scripts : /\ row.script.id # call'.arg.id
                                   /\ row.script.slug = call'.arg.slug)
                => call'.ret = "Err" /\ scripts' = scripts]_vars

\* the elements of an array with a non-empty slug and a non-empty body
NonEmpty(json) ==
    /\ json.slug # None /\ json.slug # Some("")
    /\ json.code # None /\ json.code # Some("")
ValidElements(resp) == {i \in 1..Len(resp) : NonEmpty(resp[i])}
DistinctKeys(resp) ==
    \A i, j \in ValidElements(resp) :
        i # j => resp[i].id # resp[j].id /\ resp[i].slug # resp[j].slug

\* C10: a pass that got an array returns Ok(count), count being the valid
\* elements less those whose upsert failed (one log line each); when no
\* upsert failed, the valid elements differ pairwise in id and slug and the
\* table holds no other id (as after a start from the empty table), the
\* table's records are exactly the valid elements, all active: 3 of the 4 of
\* the first array.
C10_FullPull ==
    \A p \in SyncCallers :
        (sync_pc[p] = "done" /\ sync_ret[p][1].ok) =>
            LET resp == sync_resp[p]
                valid == {ToLocalScript(resp[i]) : i \in ValidElements(resp)}
            IN  /\ sync_ret[p][1].count = sync_count[p]
                /\ sync_count[p] + sync_log[p] =
                      Cardinality(ValidElements(resp))
                /\ (/\ sync_log[p] = 0
                    /\ DistinctKeys(resp)
                    /\ ScriptIds(scripts) \subseteq {s.id : s \in valid})
                      => /\ Content(scripts) = valid
                         /\ ActiveScripts = valid
                /\ (resp = Responses[1] /\ sync_log[p] = 0)
                      => sync_ret[p][1].count = 3

\* the pass over the first array, started on the empty table, has returned
\* Ok(3) and the table holds the three valid records
C10_Witness ==
    /\ sync_pc["manual"] = "done"
    /\ sync_resp["manual"] = Responses[1]
    /\ sync_ret["manual"] = Some([ok |-> TRUE, count |-> 3, err |-> ""])
    /\ ActiveScripts =
          {ToLocalScript(JsonA), ToLocalScript(JsonB), ToLocalScript(JsonC)}

\* a pass that has returned Err
Failed(p) == sync_pc[p] = "done" /\ ~sync_ret[p][1].ok

\* C11 as stated: a pass returns Err only after a transport error or a
\* non-success status.
C11_FailsOnlyOnTransport ==
    \A p \in SyncCallers :
        Failed(p) => sync_ret[p][1].err \in {"network_error", "api_error"}

\* a failed pass ran no iteration of its loop: it stored nothing and logged
\* nothing; a pass that got an array, whatever the validity of its elements
\* and the fate of its upserts, returns Ok
FailedBeforeLoop ==
    \A p \in SyncCallers :
        /\ Failed(p) =>
              /\ sync_ret[p][1].err \in
                    {"network_error", "api_error", "json_error"}
              /\ sync_resp[p] = <<>>
              /\ sync_idx[p] = 1
              /\ sync_count[p] = 0
              /\ sync_log[p] = 0
        /\ (sync_pc[p] = "done" /\ sync_resp[p] # <<>>) => sync_ret[p][1].ok

\* the step in which a pass fails leaves the scripts table as it is
FailingStepKeepsStore ==
    \A p \in SyncCallers :
        (sync_pc[p] # "done" /\ sync_pc'[p] = "done" /\ ~sync_ret'[p][1].ok)
            => scripts' = scripts /\ call' = call

\* C11 (amended): a pass returns Err only after a transport error, a
\* non-success status or a body that is no JSON array; a pass that fails
\* has upserted nothing and the table is as it was when the pass began; a
\* pass that got an array returns Ok whatever elements it skipped.
C11_FailsBeforeAnyWrite == [](FailedBeforeLoop) /\ [][FailingStepKeepsStore]_vars

\* a pass has failed on a body that is no JSON array, an earlier pass having
\* stored three records
C11_Witness ==
    /\ sync_pc["manual"] = "done"
    /\ sync_ret["manual"] =
          Some([ok |-> FALSE, count |-> 0, err |-> "json_error"])
    /\ Cardinality(scripts) = 3

\* the stored records whose active flag is set
StoredActive == {row.script : row \in {r \in scripts : r.script.is_active}}

\* the list holds each record of the set once and nothing else
ListsExactly(items, set) ==
    /\ {items[i] : i \in 1..Len(items)} = set
    /\ Len(items) = Cardinality(set)

\* a sorts before b by (category, name), the texts compared byte by byte
KeyLess(a, b) ==
    \/ TextLess(TextOf(a.category), TextOf(b.category))
    \/ /\ a.category = b.category
       /\ TextLess(TextOf(a.name), TextOf(b.name))

\* C19: get_all_scripts returns each stored active record once and no
\* other, get_scripts_by_category those of the category, in an order in
\* which no record comes after one that follows it by (category, name);
\* the empty list when there is none; the three reads leave the table,
\* inactive rows included, as it is; get_scripts_count returns the length
\* of every list get_all_scripts may return in that state.
C19_ListActiveOrdered ==
    [][/\ call'.op = "get_all_scripts" =>
             /\ ListsExactly(call'.ret, StoredActive)
             /\ \A i, j \in 1..Len(call'.ret) :
                   i < j => ~KeyLess(call'.ret[j], call'.ret[i])
             /\ scripts' = scripts
       /\ call'.op = "get_scripts_by_category" =>
             /\ ListsExactly(call'.ret,
                    {script \in StoredActive : script.category = call'.arg})
             /\ \A i, j \in 1..Len(call'.ret) :
                   i < j => ~KeyLess(call'.ret[j], call'.ret[i])
             /\ scripts' = scripts
       /\ call'.op = "get_scripts_count" =>
             /\ \A listing \in AllScriptsListings :
                   Len(listing) = call'.ret
             /\ scripts' = scripts]_vars

\* get_all_scripts has listed four records of three categories, two of
\* them with the same category and name, while an inactive row is stored
C19_Witness ==
    /\ call.op = "get_all_scripts"
    /\ Len(call.ret) = 4
    /\ Cardinality({call.ret[i].category : i \in 1..4}) = 3
    /\ \E i \in 1..3 : call.ret[i].name = call.ret[i + 1].name
                         /\ call.ret[i].category = call.ret[i + 1].category
    /\ \E row \in scripts : ~row.script.is_active

----------------------------------------------------------------------------
(* Properties across the store and the background task *)

\* C4: over every step, an item of the sync queue that is no longer in the
\* table was removed by mark_sync_success on its own id; mark_sync_success
\* removes the item it names; an item that stays keeps its table name,
\* operation, payload and creation time.
C4_OnlyAckRemoves ==
    [][/\ \A row \in sync_queue :
             IF row.id \in QueueIdsOf(sync_queue')
                THEN LET after == QueueRow(sync_queue', row.id)
                     IN  /\ after.table_name = row.table_name
                         /\ after.operation = row.operation
                         /\ after.data = row.data
                         /\ after.created_at = row.created_at
                ELSE /\ call'.op = "mark_sync_success"
                     /\ call'.arg = row.id
       /\ \A id \in QueueIds :
             Called("mark_sync_success", id) =>
                id \notin QueueIdsOf(sync_queue')]_vars

\* after the background task has finished a periodic pass, one of two
\* queued items has been acknowledged and the other is still stored
C4_Witness ==
    /\ sched_pc = "tick"
    /\ ticker # None
    /\ call.op = "mark_sync_success"
    /\ sync_queue_seq = 2
    /\ Cardinality(sync_queue) = 1

\* C7: when the background task has finished a periodic pass in which the
\* backend answered with success, an item that
\* was alone in the queue and enqueued before that pass began has been
\* replayed: it is gone (acknowledged) or its retry_count has grown (failed).
C7_ReplayedEachPass ==
    (/\ sched_pc = "tick" /\ ticker # None /\ now < ticker[1]
     /\ sync_ret["sched"] # None /\ sync_ret["sched"][1].ok) =>
        \A row \in sync_queue :
            (/\ Cardinality(sync_queue) = 1
             /\ TextLess(row.created_at,
                         DatetimeText(ticker[1] - SYNC_PERIOD_SECS)))
                => row.retry_count > 0

----------------------------------------------------------------------------
(* Properties of the metrics history *)

StoredIds == {row.id : row \in metrics_history}
Elements(ids) == {ids[i] : i \in 1..Len(ids)}

\* C12: a mark_metrics_synced(ids) in which no statement fails returns Ok;
\* every stored sample whose id is in ids is then synced, wherever ids holds
\* ids that are not stored, and every other sample is as it was.
C12_PartialMarkSynced ==
    [][(call'.op = "mark_metrics_synced" /\ call'.arg.fail_at = 0) =>
          /\ call'.ret = "Ok"
          /\ metrics_history' =
                {IF row.id \in Elements(call'.arg.ids)
                    THEN [row EXCEPT !.synced = TRUE]
                    ELSE row : row \in metrics_history}]_vars

\* mark_metrics_synced has returned Ok for a list whose first id is not
\* stored and whose second is: that sample is synced, another one is not
C12_Witness ==
    /\ call.op = "mark_metrics_synced"
    /\ call.ret = "Ok"
    /\ Len(call.arg.ids) = 2
    /\ call.arg.ids[1] \notin StoredIds
    /\ \E row \in metrics_history : row.id = call.arg.ids[2] /\ row.synced
    /\ \E row \in metrics_history : ~row.synced

\* the sample is synced and more than 7 days old at instant t
Prunable(row, t) ==
    row.synced /\ t - row.timestamp > RETENTION_DAYS * SecondsPerDay

\* C13: a cleanup_old_metrics that succeeds deletes exactly the samples that
\* are synced and more than 7 days old and returns their number: unsynced
\* samples of any age and synced samples of 7 days or less stay; one that
\* fails deletes nothing.
C13_RetentionSweep ==
    [][call'.op = "cleanup_old_metrics" =>
          IF call'.ret = None
             THEN metrics_history' = metrics_history
             ELSE /\ metrics_history' =
                        {row \in metrics_history : ~Prunable(row, now)}
                  /\ call'.ret =
                        Some(Cardinality({row \in metrics_history :
                                             Prunable(row, now)}))]_vars

\* one second past 7 days after two samples were saved, the sweep has
\* deleted the synced one and kept the unsynced one
C13_Witness ==
    /\ call.op = "cleanup_old_metrics"
    /\ call.ret = Some(1)
    /\ now = RETENTION_DAYS * SecondsPerDay + 1
    /\ \E row \in metrics_history : row.timestamp = 0 /\ ~row.synced

\* C20: a save_metrics call adds exactly one row and returns its id, which
\* is greater than every id assigned before (stored or pruned since) and so
\* differs from each; the row carries the measures of the sample, the
\* instant of the call as timestamp and synced = 0, whatever id, timestamp
\* and synced the sample had; all stored ids are at most the last assigned.
C20_InsertAssignsFreshId ==
    [][/\ (call'.op = "save_metrics" /\ call' # call) =>
             /\ call'.ret > metrics_seq
             /\ \A row \in metrics_history : row.id < call'.ret
             /\ metrics_history' = metrics_history \cup
                   {[id |-> call'.ret, timestamp |-> now,
                     measures |-> call'.arg.measures, synced |-> FALSE]}
             /\ Cardinality(metrics_history') =
                   Cardinality(metrics_history) + 1
       /\ \A row \in metrics_history' : row.id <= metrics_seq']_vars

\* the first sample was synced and pruned; a sample that came with id 1,
\* a timestamp of 2020 and synced = true has then been saved as id 2
C20_Witness ==
    /\ call.op = "save_metrics"
    /\ call.arg.id = Some(1)
    /\ call.arg.synced
    /\ call.ret = 2
    /\ metrics_history =
          {[id |-> 2, timestamp |-> RETENTION_DAYS * SecondsPerDay + 1,
            measures |-> "m2", synced |-> FALSE]}

\* C21: over every step, a sample that stays stored keeps its measures and
\* its timestamp; its synced flag stays or goes from false to true, and it
\* changes only in a mark_metrics_synced whose list holds the sample's id.
C21_OnlySyncedFlips ==
    [][\A row \in metrics_history :
          row.id \in {after.id : after \in metrics_history'} =>
             LET after == CHOOSE r \in metrics_history' : r.id = row.id
             IN  /\ after.measures = row.measures
                 /\ after.timestamp = row.timestamp
                 /\ row.synced => after.synced
                 /\ after.synced # row.synced =>
                       /\ call'.op = "mark_metrics_synced"
                       /\ row.id \in Elements(call'.arg.ids)]_vars

\* mark_metrics_synced has been called twice in a row on a stored sample,
\* which is synced, next to a sample that is not
C21_Witness ==
    /\ call.op = "mark_metrics_synced"
    /\ call.again
    /\ call.ret = "Ok"
    /\ \E row \in metrics_history :
          row.id \in Elements(call.arg.ids) /\ row.synced
    /\ \E row \in metrics_history : ~row.synced

----------------------------------------------------------------------------
(* Properties of the cache *)

\* C2: once the clock is past the instant a set_cache with a TTL of m
\* minutes set for the entry's expiry (the instant of the call plus m
\* minutes), get_cache of the key gives None.
C2_TtlExpiry ==
    \A k \in CacheKeys :
        (/\ cache_set_at[k] # None
         /\ cache_set_at[k][1].ttl # None
         /\ now > cache_set_at[k][1].at + 60 * cache_set_at[k][1].ttl[1])
            => CacheLookup(k) = None

\* the entry of key k was last written by a set_cache without TTL
SetWithoutTtl(k) ==
    cache_set_at[k] # None /\ cache_set_at[k][1].ttl = None

\* an entry set without TTL is what get_cache returns, at any instant
NoTtlReturned ==
    \A row \in device_cache :
        SetWithoutTtl(row.key) => CacheLookup(row.key) = Some(row.value)

\* set_cache(k, v, None) stores v under k; an entry set without TTL stays
\* as it is through every step but a set_cache or delete_cache of its key
NoTtlKept ==
    /\ (call'.op = "set_cache" /\ call'.arg[3] = None) =>
          \E row \in device_cache' :
              /\ row.key = call'.arg[1]
              /\ row.value = call'.arg[2]
              /\ SetWithoutTtl(row.key)'
    /\ \A row \in device_cache :
          SetWithoutTtl(row.key) =>
             \/ row \in device_cache'
             \/ /\ call'.op = "set_cache"
                /\ call'.arg[1] = row.key
             \/ /\ call'.op = "delete_cache"
                /\ call'.arg = row.key

\* C14: after set_cache(k, v, None), at every later instant and until a
\* set_cache or delete_cache of k, get_cache(k) gives Some(v) and
\* cleanup_expired_cache leaves the entry in the table.
C14_NoTtlNeverExpires == [](NoTtlReturned) /\ [][NoTtlKept]_vars

\* more than 60 minutes after set_cache("k", "v1", None), get_cache("k")
\* has returned Some("v1")
C14_Witness ==
    /\ now = 60 * DEVICE_ID_TTL_MINUTES + 1
    /\ cache_set_at["k"] = Some([at |-> 0, ttl |-> None])
    /\ call = [op |-> "get_cache", arg |-> "k", ret |-> Some("v1"),
               again |-> FALSE]
    /\ \E row \in device_cache : row.key = "k"

\* the instant the last set_cache of key k meant the entry to expire at has
\* passed
PastTtl(k) ==
    /\ cache_set_at[k] # None
    /\ cache_set_at[k][1].ttl # None
    /\ now > cache_set_at[k][1].at + 60 * cache_set_at[k][1].ttl[1]

\* C15: get_cache changes no table, whether the key is stored, not stored
\* or past its TTL; a key that is stored stays stored through every step
\* but a delete_cache of it and a cleanup_expired_cache.
C15_GetCacheReadOnly ==
    [][/\ call'.op = "get_cache" => UNCHANGED storeVars
       /\ \A row \in device_cache :
             \/ \E after \in device_cache' : after.key = row.key
             \/ call'.op = "delete_cache" /\ call'.arg = row.key
             \/ call'.op = "cleanup_expired_cache"]_vars

\* get_cache("k") has been called on an entry past its TTL, while another
\* key is not stored: the entry is in the table
C15_Witness ==
    /\ call.op = "get_cache"
    /\ call.arg = "k"
    /\ PastTtl("k")
    /\ \E row \in device_cache : row.key = "k"
    /\ ~\E row \in device_cache : row.key = "device_id"

----------------------------------------------------------------------------
(* Properties of the device id and of the remote executions *)

\* the step is the start of a check_remote_executions call
ExecBegins == exec_pc \in {"idle", "done"} /\ exec_pc' \in {"lookup", "query"}

\* C16: a call that starts while the device id is stored, at most 60 minutes
\* after it was cached, answers from the cache and sends no devices request
\* (get_cache succeeding); a call that starts more than 60 minutes after the
\* id was cached sends the devices request.
C16_CachedForAnHour ==
    [][(/\ ExecBegins
        /\ cache_set_at["device_id"] # None
        /\ \E row \in device_cache : row.key = "device_id") =>
          IF PastTtl("device_id")
             THEN exec_looked'
             ELSE call'.ret # GetCacheErr => ~exec_looked']_vars

\* what get_or_fetch_device_id returns when no device is registered
NotFound == [ok |-> FALSE, id |-> "", err |-> "Device not found"]

\* get_or_fetch_device_id returns the 'not found' value exactly when the
\* devices request gave an array without a device id
NotFoundTold ==
    (exec_answer # "" /\ exec_device # None) =>
        /\ exec_answer \in {"empty", "no_id"} <=> exec_device[1] = NotFound
        /\ exec_answer = "network_error" =>
              exec_device[1] =
                 [ok |-> FALSE, id |-> "", err |-> "Network error"]

\* the step in which the devices request ends without a device id writes
\* nothing to the cache
NotFoundWritesNothing ==
    (exec_pc = "lookup" /\ exec_answer' \in {"empty", "no_id"}) =>
        /\ device_cache' = device_cache
        /\ call' = call

\* C17: when the devices request returns an array without a device,
\* get_or_fetch_device_id returns Err("Device not found"), a value no other
\* outcome gives, and sets nothing in the cache; a transport error gives
\* Err("Network error"), which is not that value.
C17_NotFoundDistinct == [](NotFoundTold) /\ [][NotFoundWritesNothing]_vars

\* the devices request has returned an empty array: the call is over and no
\* device id is stored
C17_Witness ==
    /\ exec_answer = "empty"
    /\ exec_device = Some(NotFound)
    /\ exec_pc = "done"
    /\ ~\E row \in device_cache : row.key = "device_id"

\* C18: when the devices request of a check_remote_executions call has
\* given no device id (an empty array, an element without id, or an
\* error), the call has returned Ok with an empty list and has sent no
\* remote_executions request.
C18_UnregisteredGivesEmpty ==
    exec_answer \notin {"", "found"} =>
        /\ exec_pc = "done"
        /\ exec_ret = Some([ok |-> TRUE, items |-> <<>>, err |-> ""])
        /\ ~exec_queried

\* after a call that found the device and listed its executions, the cached
\* id was deleted and the next call got an empty array from the devices
\* request
C18_Witness ==
    /\ exec_answer = "empty"
    /\ exec_looked
    /\ exec_ret = Some([ok |-> TRUE, items |-> <<>>, err |-> ""])
    /\ call = [op |-> "get_cache", arg |-> "device_id", ret |-> None,
               again |-> FALSE]
    /\ cache_set_at["device_id"] # None

----------------------------------------------------------------------------
(* Properties of the connection mutex *)

\* the step is a statement of a Database call other than a statement of the
\* running mark_metrics_synced
OtherCallActs == storeVars' # storeVars \/ call' # call

\* a Database call acts only while no other call holds the lock
OneCallAtATime ==
    lock # None => (OtherCallActs => MarkStatement \/ MarkUnlock)

\* the step on which mark_metrics_synced returns
MarkReturns == lock = Some("foreground") /\ lock' = None

\* every id of the list marked, as when no statement fails
MarkedAll == MarkSyncedFrom(mark_before, mark_ids, 1, 0).table

\* the ids before the failing statement marked
MarkedUpToFailure == MarkSyncedFrom(mark_before, mark_ids, 1, mark_fail).table

\* C22 (as stated): one Database call acts at a time, and a
\* mark_metrics_synced over several ids takes effect as a whole: as it
\* returns, the samples are as before the call or every id of the list is
\* marked, so that no later reader sees a part of the write.
C22_MarkAllOrNothing ==
    [][/\ OneCallAtATime
       /\ MarkReturns => metrics_history' \in {mark_before, MarkedAll}]_vars

\* C22 (amended): one Database call acts at a time: while
\* mark_metrics_synced holds the lock no other call reads or writes the
\* store; as it returns, the ids before its first failing statement are
\* marked and the others are as before the call, every id being marked when
\* no statement fails.
C22_SerializedPerStatement ==
    [][/\ OneCallAtATime
       /\ MarkReturns => metrics_history' = MarkedUpToFailure
       /\ MarkReturns /\ mark_fail = 0 => metrics_history' = MarkedAll]_vars

\* get_unsynced_metrics has just listed the samples after a
\* mark_metrics_synced over two stored ids failed on its second statement:
\* the first id is marked and the second is listed as unsynced
C22_Witness ==
    /\ lock = None
    /\ call.op = "get_unsynced_metrics"
    /\ mark_ids = <<1, 2>>
    /\ mark_fail = 2
    /\ mark_i = 2
    /\ \E row \in metrics_history : row.id = 1 /\ row.synced
    /\ Len(call.ret) = 1
    /\ call.ret[1].id = 2

----------------------------------------------------------------------------
(* Properties of the background task *)

\* the background task is inside a pass: the startup sync, a periodic sync
\* or one of the two sweeps
InPass == sched_pc \in {"initial_sync", "sync", "cleanup_cache"}

\* C23: whatever the outcomes of the syncs and of the sweeps, a pass of the
\* background task leads back to waiting on the ticker, and from waiting on
\* a tick due within the clock's range the next periodic sync starts.
C23_SchedulerNeverStops ==
    /\ InPass ~> (sched_pc = "tick")
    /\ (sched_pc = "tick" /\ ticker[1] <= LastInstant) ~> (sched_pc = "sync")

\* the second periodic sync is running after a pass whose cache sweep
\* failed
C23_Witness ==
    /\ sched_pc = "sync"
    /\ ticker = Some(LastInstant)
    /\ call.op = "cleanup_expired_cache"
    /\ call.ret = None

\* C24: the background task enters its sweeps only from a periodic sync
\* that has returned, by calling cleanup_old_metrics, and leaves them only
\* by calling cleanup_expired_cache; every periodic sync, failed or not, is
\* followed by the metrics sweep, and every metrics sweep, failed or not, by
\* the cache sweep.
C24_SweepAfterSync ==
    /\ [][/\ sched_pc # "cleanup_cache" /\ sched_pc' = "cleanup_cache" =>
             /\ sched_pc = "sync"
             /\ sync_pc["sched"] = "done"
             /\ call'.op = "cleanup_old_metrics"
          /\ sched_pc = "cleanup_cache" /\ sched_pc' # "cleanup_cache" =>
             /\ sched_pc' = "tick"
             /\ call'.op = "cleanup_expired_cache"]_vars
    /\ (sched_pc = "sync") ~> (sched_pc = "cleanup_cache")
    /\ (sched_pc = "cleanup_cache") ~>
          (sched_pc = "tick" /\ call.op = "cleanup_expired_cache")

\* the periodic sync failed, cleanup_old_metrics ran and failed, and the
\* cache sweep is next
C24_Witness ==
    /\ sched_pc = "cleanup_cache"
    /\ Failed("sched")
    /\ call.op = "cleanup_old_metrics"
    /\ call.ret = None

\* C25: the startup sync starts no sooner than the startup delay, and a
\* periodic sync runs no sooner than one full period after that: the
\* background task is in a periodic sync only at or after the startup delay
\* plus one period.
C25_PeriodAfterStartupSync ==
    /\ sched_pc = "initial_sync" => now >= STARTUP_DELAY_SECS
    /\ sched_pc = "sync" => now >= STARTUP_DELAY_SECS + SYNC_PERIOD_SECS

----------------------------------------------------------------------------
(* Properties of the cache sweep *)

\* C26: after a cleanup_expired_cache that succeeds, no stored entry is past
\* the expiry its set_cache asked for; the entries set without TTL or not
\* yet past their TTL are kept as they are; the call returns the number of
\* entries it removed.
C26_SweepRemovesExpired ==
    [][DbCleanupExpiredCache(TRUE) =>
          /\ \A row \in device_cache' : ~PastTtl(row.key)
          /\ \A row \in device_cache :
                ~PastTtl(row.key) => row \in device_cache'
          /\ call'.ret =
                Some(Cardinality(device_cache) - Cardinality(device_cache'))
      ]_vars

----------------------------------------------------------------------------
(* Properties of the local copy of the scripts *)

\* the slugs of the valid elements of the array caller p fetched
FetchedSlugs(p) ==
    {ToLocalScript(sync_resp[p][i]).slug :
        i \in {j \in 1..Len(sync_resp[p]) :
                  ValidScript(ToLocalScript(sync_resp[p][j]))}}

\* C27: when a manual pass returns Ok with no record refused by the store,
\* the scripts get_all_scripts lists are those of the valid elements of the
\* array the pass fetched: a script of an earlier pass that the backend no
\* longer reports is not listed.
C27_MirrorsBackend ==
    [][SyncReturn("manual") /\ sync_log["manual"] = 0 =>
          {script.slug : script \in ActiveScripts} = FetchedSlugs("manual")
      ]_vars

----------------------------------------------------------------------------
(* Properties of the lock around the requests *)

\* C29: a task whose request is pending does not hold the connection lock;
\* the lock is held only inside a Database call (here the running
\* mark_metrics_synced of a foreground caller, which sends no request), so a
\* pending request keeps no other task from the store.
C29_NoLockAcrossNetwork ==
    /\ \A task \in NetworkTasks : NetworkPending(task) => lock # Some(task)
    /\ lock # None => lock = Some("foreground") /\ mark_i <= Len(mark_ids) + 1

\* the pull of a manual sync and the actions query are both pending, the
\* device id having been looked up and cached by this call, and a
\* save_metrics of a foreground caller has run since
C29_Witness ==
    /\ NetworkPending("manual")
    /\ exec_pc = "query"
    /\ exec_looked
    /\ call.op = "save_metrics"
    /\ lock = None

----------------------------------------------------------------------------
(* Properties of overlapping passes *)

\* the LocalScripts of the valid elements of the array caller p fetched
FetchedScripts(p) ==
    {ToLocalScript(sync_resp[p][i]) :
        i \in {j \in 1..Len(sync_resp[p]) :
                  ValidScript(ToLocalScript(sync_resp[p][j]))}}

\* both passes have returned Ok, `older` having fetched the first array and
\* `later` the second, to which the backend changed in between
BothDone(older, later) ==
    /\ older # later
    /\ sync_pc[older] = "done" /\ sync_ret[older][1].ok
    /\ sync_pc[later] = "done" /\ sync_ret[later][1].ok
    /\ sync_resp[older] = Responses[1]
    /\ sync_resp[later] = Responses[2]

====
